---- MODULE Spec2Model ----
(***************************************************************************)
(* The nokhwa camera backend of strand-braid (camera/ci2-nokhwa/src/lib.rs) *)
(* as a state machine: one WrappedCamera, its three mutexes (device handle, *)
(* frame counter, current-format record), the backend device behind the    *)
(* handle, and the callers of the ci2::Camera methods.                     *)
(***************************************************************************)
EXTENDS Integers, Sequences, FiniteSets, TLC

\* ------------------------------------------------------------------ bounds

\* Caller threads sharing one camera.
NumThreads == 2
\* Width, in bits, of the frame counter (usize, 64 bits in the program).
FnoBits == 2
\* Frames the counter may have handed out before the concurrent callers stop
\* asking for more (ConcurrentSpec only).
MaxConcurrentFrames == 1

Threads == 1..NumThreads
\* The thread that owns the camera and makes the &mut self calls.
MainThread == 1

FnoModulus == 2 ^ FnoBits
\* const BAD_FNO: usize = usize::MAX
BAD_FNO == FnoModulus - 1
\* No frame delivered yet (history only).
NoFno == 0 - 1

\* ------------------------------------------------------------- value sets

\* nokhwa::utils::FrameFormat
FrameFormat == {"MJPEG", "YUYV", "GRAY", "NV12"}
\* machine_vision_formats::PixFmt (the canonical formats)
PixFmt == {"RGB8", "Mono8", "YUV422", "NV12", "BayerRG8"}
\* What camera.camera_format() may report for a newly opened camera.
CameraFormats ==
    { [resolution |-> [width |-> 640, height |-> 480], format |-> "MJPEG",
       frame_rate |-> 30],
      [resolution |-> [width |-> 1280, height |-> 720], format |-> "NV12",
       frame_rate |-> 60] }

\* Feature names of the weakly typed API; "NoSuchFeature" is in no taxonomy.
UnknownFeature == "NoSuchFeature"
BoolNames == {"AcquisitionFrameRateEnable", UnknownFeature}
IntNames == {"Width", "Height", UnknownFeature}
FloatNames ==
    {"ExposureTime", "Gain", "AcquisitionFrameRate", "AcquisitionFrameRateAbs",
     UnknownFeature}
EnumNames ==
    {"PixelFormat", "TriggerMode", "AcquisitionMode", "TriggerSelector",
     "ExposureAuto", "GainAuto", UnknownFeature}
CommandNames == {"AcquisitionStart", "AcquisitionStop", "NoSuchCommand"}
\* Values handed to feature_enum_set.
EnumValues(name) ==
    IF name = "PixelFormat" THEN {"MJPEG", "YUYV", "GRAY", "Mono8"} ELSE {"Continuous"}
AutoModes == {"Off", "Once", "Continuous"}

\* The three mutexes of WrappedCamera.
LockNames == {"inner", "store_fno", "current_format"}

\* --------------------------------------------------------------- results

NoResult == [tag |-> "None", val |-> "", num |-> 0, err |-> "", subject |-> ""]
Ok(v) == [tag |-> "Ok", val |-> v, num |-> 0, err |-> "", subject |-> ""]
OkNum(n) == [tag |-> "Ok", val |-> "", num |-> n, err |-> "", subject |-> ""]
\* ci2::Error built from a message that names `subject`.
Err(kind, subject) ==
    [tag |-> "Err", val |-> "", num |-> 0, err |-> kind, subject |-> subject]
\* Error::NokhwaError: a failure reported by the backend.
BackendError == Err("Nokhwa error", "")
\* lock().unwrap() on a poisoned mutex, or an arithmetic overflow panic.
Panicked == [tag |-> "Panic", val |-> "", num |-> 0, err |-> "", subject |-> ""]
IsOk(r) == r.tag = "Ok"
IsErr(r) == r.tag = "Err"

\* ------------------------------------------------- PixelFormat Normalizer

convert_nokhwa_to_machine_vision_format(format) ==
    CASE format = "MJPEG" -> Ok("RGB8")
      [] format = "YUYV" -> Ok("YUV422")
      [] format = "GRAY" -> Ok("Mono8")
      [] OTHER -> Ok("RGB8")

\* convert_machine_vision_to_nokhwa_format with two arms exchanged.
convert_machine_vision_to_nokhwa_format_swapped(format) ==
    CASE format = "RGB8" -> Ok("MJPEG")
      [] format = "YUV422" -> Ok("GRAY")
      [] format = "Mono8" -> Ok("YUYV")
      [] OTHER -> Err("Unsupported pixel format", format)

convert_machine_vision_to_nokhwa_format(format) ==
    CASE format = "RGB8" -> Ok("MJPEG")
      [] format = "YUV422" -> Ok("YUYV")
      [] format = "Mono8" -> Ok("GRAY")
      [] OTHER -> Err("Unsupported pixel format", format)

convert_from_nokhwa_format(format) ==
    CASE format = "MJPEG" -> "MJPEG"
      [] format = "YUYV" -> "YUYV"
      [] format = "GRAY" -> "GRAY"
      [] OTHER -> format

convert_to_nokhwa_format(format_str) ==
    CASE format_str = "MJPEG" -> Ok("MJPEG")
      [] format_str = "YUYV" -> Ok("YUYV")
      [] format_str = "GRAY" -> Ok("GRAY")
      [] OTHER -> Err("Unknown format string", format_str)

str_to_auto_mode(val) ==
    CASE val = "Off" -> Ok("Off")
      [] val = "Once" -> Ok("Once")
      [] val = "Continuous" -> Ok("Continuous")
      [] OTHER -> Err("unexpected AutoMode enum string", val)

mode_to_str(value) ==
    CASE value = "Off" -> "Off"
      [] value = "Once" -> "Once"
      [] value = "Continuous" -> "Continuous"

\* CameraFormat::new(resolution, format, frame_rate)
CameraFormat_new(resolution, format, frame_rate) ==
    [resolution |-> resolution, format |-> format, frame_rate |-> frame_rate]

\* ------------------------------------------------------------------ state

VARIABLES
    store_fno,        \* WrappedCamera.store_fno: the frame counter
    current_format,   \* WrappedCamera.current_format: the CameraFormat record
    camera,           \* the backend device behind WrappedCamera.inner: is its
                      \* stream open
    held,             \* for each mutex, the thread holding it (0: free)
    poisoned,         \* the mutexes a panicking holder has poisoned
    overflow_checks,  \* whether the build panics on integer overflow: "on" or
                      \* "off", "unobserved" until the first overflow shows it
    pc,               \* where each thread is in the call it is making
    call,             \* the call each thread is making
    frame_fno,        \* next_frame's local `fno`
    ev,               \* the call that returned in the last step, with its result
    session,          \* history: "new", "clean" (first unbroken session), "broken"
    lastFno,          \* history: number of the last frame delivered
    issued,           \* history: setter calls issued by the current composite call
    prev_format       \* history: the format record as it was when the PixelFormat
                      \* set in flight began (NoFormat: none in flight)

vars ==
    <<store_fno, current_format, camera, held, poisoned, overflow_checks, pc,
      call, frame_fno, ev, session, lastFno, issued, prev_format>>

dev_vars == <<store_fno, current_format, camera, poisoned, overflow_checks, frame_fno>>
hist_vars == <<session, lastFno, issued, prev_format>>

NoCall == [op |-> "", name |-> "", arg |-> ""]
NoFormat ==
    [resolution |-> [width |-> 0, height |-> 0], format |-> "", frame_rate |-> 0]
Call(op, name, arg) == [op |-> op, name |-> name, arg |-> arg]
NoEvent == [op |-> "", name |-> "", arg |-> "", res |-> NoResult]
Event(c, r) == [op |-> c.op, name |-> c.name, arg |-> c.arg, res |-> r]

\* The methods that take &mut self: the borrow checker lets one run only while
\* no other call on the camera is in flight.
MutOps ==
    {"set_pixel_format", "set_exposure_time", "set_exposure_auto", "set_gain",
     "set_gain_auto", "set_trigger_mode", "set_acquisition_frame_rate_enable",
     "set_acquisition_frame_rate", "set_trigger_selector",
     "set_acquisition_mode", "acquisition_start", "acquisition_stop",
     "next_frame", "start_default_external_triggering",
     "set_software_frame_rate_limit"}

Idle(t) == pc[t] = "idle"
\* A &self method may start while only &self calls are in flight.
CanCallShared(t) ==
    /\ Idle(t)
    /\ \A u \in Threads : call[u].op \notin MutOps
\* A &mut self method may start only when no call is in flight.
CanCallMut(t) == \A u \in Threads : Idle(u)

HeldBy(t) == {l \in LockNames : held[l] = t}
ReleaseAll(t) == [l \in LockNames |-> IF held[l] = t THEN 0 ELSE held[l]]

\* A call that takes no lock: it returns r in the step that makes it.
Immediate(t, c, r) ==
    /\ ev' = Event(c, r)
    /\ UNCHANGED <<dev_vars, held, pc, call, hist_vars>>

\* The call in flight on thread t returns r; its guards are dropped.
Finish(t, r) ==
    /\ pc' = [pc EXCEPT ![t] = "idle"]
    /\ call' = [call EXCEPT ![t] = NoCall]
    /\ held' = ReleaseAll(t)
    /\ ev' = Event(call[t], r)

\* Thread t panics: unwinding drops its guards and poisons their mutexes.
Panic(t) ==
    /\ Finish(t, Panicked)
    /\ poisoned' = poisoned \cup HeldBy(t)

\* mutex.lock().unwrap() as the first step of call c: waits for the mutex,
\* panics if it is poisoned, else holds it and goes on at `next`.
LockFirst(t, l, c, next) ==
    /\ held[l] = 0
    /\ IF l \in poisoned
       THEN Immediate(t, c, Panicked)
       ELSE /\ held' = [held EXCEPT ![l] = t]
            /\ pc' = [pc EXCEPT ![t] = next]
            /\ call' = [call EXCEPT ![t] = c]
            /\ ev' = NoEvent
            /\ UNCHANGED <<dev_vars, hist_vars>>

Init ==
    /\ store_fno = 0
    /\ current_format \in CameraFormats
    /\ camera = [streaming |-> FALSE]
    /\ held = [l \in LockNames |-> 0]
    /\ poisoned = {}
    /\ overflow_checks = "unobserved"
    /\ pc = [t \in Threads |-> "idle"]
    /\ call = [t \in Threads |-> NoCall]
    /\ frame_fno = NoFno
    /\ ev = NoEvent
    /\ session = "new"
    /\ lastFno = NoFno
    /\ issued = <<>>
    /\ prev_format = NoFormat

\* ---------------------------------------------------------- Feature Surface

\* The arms of command_execute's match that fail without touching the device.
command_execute_unknown(name) == Err("Unknown command", name)

\* command_execute reaching for the device without locking the handle.
command_execute_unlocked(t, name) ==
    /\ CanCallShared(t)
    /\ IF name \in {"AcquisitionStart", "AcquisitionStop"}
       THEN /\ pc' = [pc EXCEPT ![t] = "call_backend"]
            /\ call' = [call EXCEPT ![t] = Call("command_execute", name, "")]
            /\ ev' = NoEvent
            /\ UNCHANGED <<dev_vars, held, hist_vars>>
       ELSE Immediate(t, Call("command_execute", name, ""),
                      command_execute_unknown(name))

command_execute(t, name) ==
    /\ CanCallShared(t)
    /\ IF name \in {"AcquisitionStart", "AcquisitionStop"}
       THEN LockFirst(t, "inner", Call("command_execute", name, ""), "call_backend")
       ELSE Immediate(t, Call("command_execute", name, ""),
                      command_execute_unknown(name))

feature_bool_result(name) == Ok("false")

feature_bool(t, name) ==
    /\ CanCallShared(t)
    /\ Immediate(t, Call("feature_bool", name, ""), feature_bool_result(name))

feature_bool_set_result(name, value) == Ok("")

feature_bool_set(t, name, value) ==
    /\ CanCallShared(t)
    /\ Immediate(t, Call("feature_bool_set", name, value),
                 feature_bool_set_result(name, value))

\* feature_enum's arms that read neither the format record nor the device.
feature_enum_fixed(name) ==
    CASE name = "TriggerMode" -> Ok("Off")
      [] name = "AcquisitionMode" -> Ok("Continuous")
      [] name = "TriggerSelector" -> Ok("FrameStart")
      [] OTHER -> Err("Unknown enum feature", name)

feature_enum(t, name) ==
    /\ CanCallShared(t)
    /\ CASE name = "PixelFormat" ->
              LockFirst(t, "current_format", Call("feature_enum", name, ""), "read_format")
         [] name \in {"ExposureAuto", "GainAuto"} ->
              LockFirst(t, "inner", Call("feature_enum", name, ""), "call_backend")
         [] OTHER ->
              Immediate(t, Call("feature_enum", name, ""), feature_enum_fixed(name))

\* feature_float's arms that do not read the format record.
feature_float_fixed(name) ==
    CASE name = "ExposureTime" -> Ok("1000.0")
      [] name = "Gain" -> Ok("0.0")
      [] OTHER -> Err("Unknown float feature", name)

feature_float(t, name) ==
    /\ CanCallShared(t)
    /\ IF name \in {"AcquisitionFrameRate", "AcquisitionFrameRateAbs"}
       THEN LockFirst(t, "current_format", Call("feature_float", name, ""), "read_format")
       ELSE Immediate(t, Call("feature_float", name, ""), feature_float_fixed(name))

feature_float_set_result(name, value) == Ok("")

feature_float_set(t, name, value) ==
    /\ CanCallShared(t)
    /\ Immediate(t, Call("feature_float_set", name, value),
                 feature_float_set_result(name, value))

feature_int_fixed(name) == OkNum(0)

feature_int(t, name) ==
    /\ CanCallShared(t)
    /\ IF name \in {"Width", "Height"}
       THEN LockFirst(t, "current_format", Call("feature_int", name, ""), "read_format")
       ELSE Immediate(t, Call("feature_int", name, ""), feature_int_fixed(name))

feature_int_set_result(name, value) == Ok("")

feature_int_set(t, name, value) ==
    /\ CanCallShared(t)
    /\ Immediate(t, Call("feature_int_set", name, value),
                 feature_int_set_result(name, value))

node_map_load_result(settings) == Ok("")

\* node_map_load applying a default for every key the document lacks.
node_map_load_defaults(t, settings) ==
    /\ CanCallShared(t)
    /\ ev' = Event(Call("node_map_load", "", settings), node_map_load_result(settings))
    /\ current_format' = [current_format EXCEPT !.format = "MJPEG"]
    /\ UNCHANGED <<store_fno, camera, poisoned, overflow_checks, frame_fno, held,
                   pc, call, hist_vars>>

node_map_load(t, settings) ==
    /\ CanCallShared(t)
    /\ Immediate(t, Call("node_map_load", "", settings), node_map_load_result(settings))

node_map_save_result == Ok("{}")

node_map_save(t) ==
    /\ CanCallShared(t)
    /\ Immediate(t, Call("node_map_save", "", ""), node_map_save_result)

\* A PixelFormat set that loses the frame rate.
updated_format_rate_lost(old, format) ==
    CameraFormat_new(old.resolution, format, 0)

\* The record a PixelFormat set writes: only the pixel encoding is replaced.
updated_format(old, format) ==
    CameraFormat_new(old.resolution, format, old.frame_rate)

\* The body shared by feature_enum_set("PixelFormat") and set_pixel_format,
\* up to the wait for the device handle: a failed conversion returns at once;
\* otherwise the format record is locked and overwritten.
write_format(t, c, converted) ==
    IF ~IsOk(converted)
    THEN Immediate(t, c, converted)
    ELSE /\ held["current_format"] = 0
         /\ IF "current_format" \in poisoned
            THEN Immediate(t, c, Panicked)
            ELSE /\ held' = [held EXCEPT !["current_format"] = t]
                 /\ current_format' = updated_format(current_format, converted.val)
                 /\ pc' = [pc EXCEPT ![t] = "lock_inner"]
                 /\ call' = [call EXCEPT ![t] = c]
                 /\ ev' = NoEvent
                 /\ prev_format' = current_format
                 /\ UNCHANGED <<store_fno, camera, poisoned, overflow_checks,
                                frame_fno, session, lastFno, issued>>

\* feature_enum_set refusing what it does not implement.
feature_enum_set_rejecting(name, value) == Err("Unknown enum feature", name)

\* feature_enum_set's arms other than "PixelFormat".
feature_enum_set_ignored(name, value) == Ok("")

feature_enum_set(t, name, value) ==
    /\ CanCallShared(t)
    /\ IF name = "PixelFormat"
       THEN write_format(t, Call("feature_enum_set", name, value),
                         convert_to_nokhwa_format(value))
       ELSE Immediate(t, Call("feature_enum_set", name, value),
                      feature_enum_set_ignored(name, value))

\* self.inner.lock().unwrap() with the format record already locked.
lock_inner(t) ==
    /\ pc[t] = "lock_inner"
    /\ held["inner"] = 0
    /\ IF "inner" \in poisoned
       THEN /\ Panic(t)
            /\ prev_format' = NoFormat
            /\ UNCHANGED <<store_fno, current_format, camera, overflow_checks,
                           frame_fno, session, lastFno, issued>>
       ELSE /\ held' = [held EXCEPT !["inner"] = t]
            /\ pc' = [pc EXCEPT ![t] = "call_backend"]
            /\ ev' = NoEvent
            /\ UNCHANGED <<dev_vars, call, hist_vars>>

\* ------------------------------------------------------- the backend device

\* The method of nokhwa::Camera that call c makes on the handle.
backend_method(c) ==
    CASE c.op \in {"acquisition_start"} -> "open_stream"
      [] c.op \in {"acquisition_stop"} -> "stop_stream"
      [] c.op = "command_execute" /\ c.name = "AcquisitionStart" -> "open_stream"
      [] c.op = "command_execute" /\ c.name = "AcquisitionStop" -> "stop_stream"
      [] c.op \in {"feature_enum", "exposure_auto", "gain_auto"} -> "camera_control"
      [] c.op \in {"feature_enum_set", "set_pixel_format"} -> "set_camera_requset"
      [] c.op = "next_frame" -> "frame"
      [] OTHER -> ""

\* With the handle locked, the call enters the backend.
enter_backend(t) ==
    /\ pc[t] = "call_backend"
    /\ pc' = [pc EXCEPT ![t] = "in_backend"]
    /\ ev' = NoEvent
    /\ UNCHANGED <<dev_vars, held, call, hist_vars>>

InBackend(t) == pc[t] = "in_backend"

\* What a start or stop leaves of the history of the first session.
session_after(method, ok) ==
    CASE method = "open_stream" /\ ok -> IF session = "new" THEN "clean" ELSE session
      [] method = "open_stream" /\ ~ok -> IF session = "new" THEN "new" ELSE "broken"
      [] OTHER -> IF session = "new" THEN "new" ELSE "broken"

\* open_stream() or stop_stream() returns; `?` hands a failure to the caller.
stream_returns(t, ok) ==
    /\ InBackend(t)
    /\ backend_method(call[t]) \in {"open_stream", "stop_stream"}
    /\ camera' = IF ok
                 THEN [camera EXCEPT !.streaming = (backend_method(call[t]) = "open_stream")]
                 ELSE camera
    /\ Finish(t, IF ok THEN Ok("") ELSE BackendError)
    /\ session' = session_after(backend_method(call[t]), ok)
    /\ UNCHANGED <<store_fno, current_format, poisoned, overflow_checks, frame_fno,
                   lastFno, issued, prev_format>>

\* What feature_enum("ExposureAuto" | "GainAuto") makes of camera_control's answer.
auto_mode_string(ok) == IF ok THEN Ok("Off") ELSE Ok("Off")

\* camera_control() returns.
camera_control_returns(t, ok) ==
    /\ InBackend(t)
    /\ backend_method(call[t]) = "camera_control"
    /\ Finish(t, IF call[t].op = "feature_enum"
                 THEN auto_mode_string(ok)
                 ELSE str_to_auto_mode(auto_mode_string(ok).val))
    /\ UNCHANGED <<dev_vars, hist_vars>>

\* set_camera_requset(Exact(current_format)) returns.
set_camera_requset_returns(t, ok) ==
    /\ InBackend(t)
    /\ backend_method(call[t]) = "set_camera_requset"
    /\ Finish(t, IF ok THEN Ok("") ELSE BackendError)
    /\ prev_format' = NoFormat
    /\ UNCHANGED <<dev_vars, session, lastFno, issued>>

\* ------------------------------------------------ reads of the format record

width_result(format) == OkNum(format.resolution.width)
height_result(format) == OkNum(format.resolution.height)
pixel_format_result(format) == convert_nokhwa_to_machine_vision_format(format.format)
pixel_format_string(format) == Ok(convert_from_nokhwa_format(format.format))
frame_rate_result(format) == OkNum(format.frame_rate)

\* What call c, holding the format record, returns.
read_format_result(c, format) ==
    CASE c.op = "feature_enum" -> pixel_format_string(format)
      [] c.op \in {"feature_float", "acquisition_frame_rate"} -> frame_rate_result(format)
      [] c.op = "width" \/ (c.op = "feature_int" /\ c.name = "Width") ->
            width_result(format)
      [] c.op = "height" \/ (c.op = "feature_int" /\ c.name = "Height") ->
            height_result(format)
      [] c.op = "pixel_format" -> pixel_format_result(format)

read_format_returns(t) ==
    /\ pc[t] = "read_format"
    /\ Finish(t, read_format_result(call[t], current_format))
    /\ UNCHANGED <<dev_vars, hist_vars>>

\* ----------------------------------------------------- Typed Settings Facade

width(t) ==
    /\ CanCallShared(t)
    /\ LockFirst(t, "current_format", Call("width", "", ""), "read_format")

height(t) ==
    /\ CanCallShared(t)
    /\ LockFirst(t, "current_format", Call("height", "", ""), "read_format")

pixel_format(t) ==
    /\ CanCallShared(t)
    /\ LockFirst(t, "current_format", Call("pixel_format", "", ""), "read_format")

set_pixel_format(t, format) ==
    /\ CanCallMut(t)
    /\ write_format(t, Call("set_pixel_format", "", format),
                    convert_machine_vision_to_nokhwa_format(format))

exposure_time(t) ==
    /\ CanCallShared(t)
    /\ Immediate(t, Call("exposure_time", "", ""), feature_float_fixed("ExposureTime"))

set_exposure_time(t, value) ==
    /\ CanCallMut(t)
    /\ Immediate(t, Call("set_exposure_time", "", value),
                 feature_float_set_result("ExposureTime", value))

exposure_auto(t) ==
    /\ CanCallShared(t)
    /\ LockFirst(t, "inner", Call("exposure_auto", "ExposureAuto", ""), "call_backend")

set_exposure_auto(t, value) ==
    /\ CanCallMut(t)
    /\ Immediate(t, Call("set_exposure_auto", "", value),
                 feature_enum_set_ignored("ExposureAuto", mode_to_str(value)))

gain(t) ==
    /\ CanCallShared(t)
    /\ Immediate(t, Call("gain", "", ""), feature_float_fixed("Gain"))

set_gain(t, value) ==
    /\ CanCallMut(t)
    /\ Immediate(t, Call("set_gain", "", value), feature_float_set_result("Gain", value))

gain_auto(t) ==
    /\ CanCallShared(t)
    /\ LockFirst(t, "inner", Call("gain_auto", "GainAuto", ""), "call_backend")

set_gain_auto(t, value) ==
    /\ CanCallMut(t)
    /\ Immediate(t, Call("set_gain_auto", "", value),
                 feature_enum_set_ignored("GainAuto", mode_to_str(value)))

trigger_mode_result == Ok("Off")

trigger_mode(t) ==
    /\ CanCallShared(t)
    /\ Immediate(t, Call("trigger_mode", "", ""), trigger_mode_result)

set_trigger_mode_result(value) == Ok("")

set_trigger_mode(t, value) ==
    /\ CanCallMut(t)
    /\ Immediate(t, Call("set_trigger_mode", "", value), set_trigger_mode_result(value))

acquisition_frame_rate_enable_result == Ok("true")

acquisition_frame_rate_enable(t) ==
    /\ CanCallShared(t)
    /\ Immediate(t, Call("acquisition_frame_rate_enable", "", ""),
                 acquisition_frame_rate_enable_result)

set_acquisition_frame_rate_enable_result(value) == Ok("")

set_acquisition_frame_rate_enable(t, value) ==
    /\ CanCallMut(t)
    /\ Immediate(t, Call("set_acquisition_frame_rate_enable", "", value),
                 set_acquisition_frame_rate_enable_result(value))

acquisition_frame_rate(t) ==
    /\ CanCallShared(t)
    /\ LockFirst(t, "current_format", Call("acquisition_frame_rate", "", ""),
                 "read_format")

set_acquisition_frame_rate(t, value) ==
    /\ CanCallMut(t)
    /\ Immediate(t, Call("set_acquisition_frame_rate", "", value),
                 feature_float_set_result("AcquisitionFrameRate", value))

trigger_selector_result == Ok("FrameStart")

trigger_selector(t) ==
    /\ CanCallShared(t)
    /\ Immediate(t, Call("trigger_selector", "", ""), trigger_selector_result)

set_trigger_selector_result(value) == Ok("")

set_trigger_selector(t, value) ==
    /\ CanCallMut(t)
    /\ Immediate(t, Call("set_trigger_selector", "", value),
                 set_trigger_selector_result(value))

acquisition_mode_result == Ok("Continuous")

acquisition_mode(t) ==
    /\ CanCallShared(t)
    /\ Immediate(t, Call("acquisition_mode", "", ""), acquisition_mode_result)

set_acquisition_mode_result(value) == Ok("")

set_acquisition_mode(t, value) ==
    /\ CanCallMut(t)
    /\ Immediate(t, Call("set_acquisition_mode", "", value),
                 set_acquisition_mode_result(value))

\* ------------------------------------------------- Acquisition State Machine

acquisition_start(t) ==
    /\ CanCallMut(t)
    /\ LockFirst(t, "inner", Call("acquisition_start", "", ""), "call_backend")

acquisition_stop(t) ==
    /\ CanCallMut(t)
    /\ LockFirst(t, "inner", Call("acquisition_stop", "", ""), "call_backend")

\* next_frame locking the frame counter before it fetches the frame, and
\* again after.
next_frame_counter_first(t) ==
    /\ CanCallMut(t)
    /\ LockFirst(t, "store_fno", Call("next_frame", "", ""), "call_backend")

next_frame(t) ==
    /\ CanCallMut(t)
    /\ LockFirst(t, "inner", Call("next_frame", "", ""), "call_backend")

\* History: a next_frame call that delivers no frame ends the clean session.
NoFrameDelivered ==
    /\ session' = "broken"
    /\ UNCHANGED <<lastFno, issued, prev_format>>

\* camera.frame() returns: `?` hands a failure to the caller, a frame goes on
\* to the frame counter.
frame_returns(t, ok) ==
    /\ InBackend(t)
    /\ backend_method(call[t]) = "frame"
    /\ IF ok
       THEN /\ pc' = [pc EXCEPT ![t] = "lock_store_fno"]
            /\ ev' = NoEvent
            /\ UNCHANGED <<dev_vars, held, call, hist_vars>>
       ELSE /\ Finish(t, BackendError)
            /\ NoFrameDelivered
            /\ UNCHANGED dev_vars

\* self.store_fno.lock().unwrap(), with the device handle still locked.
lock_store_fno(t) ==
    /\ pc[t] = "lock_store_fno"
    /\ held["store_fno"] = 0
    /\ IF "store_fno" \in poisoned
       THEN /\ Panic(t)
            /\ NoFrameDelivered
            /\ UNCHANGED <<store_fno, current_format, camera, overflow_checks, frame_fno>>
       ELSE /\ held' = [held EXCEPT !["store_fno"] = t]
            /\ pc' = [pc EXCEPT ![t] = "increment"]
            /\ ev' = NoEvent
            /\ UNCHANGED <<dev_vars, call, hist_vars>>

\* `*fno_guard += 1` on a usize: whether n + 1 fits, and what a build without
\* overflow checks stores when it does not.
Overflows(n) == n + 1 >= FnoModulus
wrapping_add_one(n) == (n + 1) % FnoModulus

\* let fno = *fno_guard; *fno_guard += 1; drop(fno_guard)
\* An overflowing += panics in a build with overflow checks and wraps in one
\* without; `checks` is what the build turns out to be.
increment(t, checks) ==
    /\ pc[t] = "increment"
    /\ IF Overflows(store_fno)
       THEN checks # "unobserved" /\ overflow_checks \in {"unobserved", checks}
       ELSE checks = overflow_checks
    /\ IF Overflows(store_fno) /\ checks = "on"
       THEN /\ Panic(t)
            /\ NoFrameDelivered
            /\ overflow_checks' = checks
            /\ UNCHANGED <<store_fno, current_format, camera, frame_fno>>
       ELSE /\ frame_fno' = store_fno
            /\ store_fno' = wrapping_add_one(store_fno)
            /\ overflow_checks' = checks
            /\ held' = [held EXCEPT !["store_fno"] = 0]
            /\ pc' = [pc EXCEPT ![t] = "decode"]
            /\ ev' = NoEvent
            /\ UNCHANGED <<current_format, camera, poisoned, call, hist_vars>>

\* The frame handed to the caller: RGB8 pixels, host_timing.fno = fno.
delivered_frame(fno) ==
    [tag |-> "Ok", val |-> "RGB8", num |-> fno, err |-> "", subject |-> ""]

\* From the source-format conversion to the return: the backend's frame has
\* format `source`, and decode_image may fail.
decode(t, source, ok) ==
    /\ pc[t] = "decode"
    /\ LET converted == convert_nokhwa_to_machine_vision_format(source)
           delivered == IsOk(converted) /\ ok
       IN /\ Finish(t, IF ~IsOk(converted) THEN converted
                       ELSE IF ~ok THEN BackendError
                       ELSE delivered_frame(frame_fno))
          /\ IF delivered
             THEN /\ lastFno' = frame_fno
                  /\ session' = IF session = "clean" THEN "clean" ELSE "broken"
                  /\ UNCHANGED <<issued, prev_format>>
             ELSE NoFrameDelivered
    /\ frame_fno' = NoFno
    /\ UNCHANGED <<store_fno, current_format, camera, poisoned, overflow_checks>>

\* ------------------------------------------------------ composite operations

\* start_default_external_triggering setting the mode first.
start_default_external_triggering_calls_mode_first ==
    << Call("set_trigger_mode", "", "On"),
       Call("set_trigger_selector", "", "FrameStart") >>

\* The typed setters a composite operation calls, in the order it calls them.
start_default_external_triggering_calls ==
    << Call("set_trigger_selector", "", "FrameStart"),
       Call("set_trigger_mode", "", "On") >>

set_software_frame_rate_limit_calls(fps_limit) ==
    << Call("set_acquisition_frame_rate_enable", "", "true"),
       Call("set_acquisition_frame_rate", "", fps_limit) >>

composite_calls(c) ==
    IF c.op = "start_default_external_triggering"
    THEN start_default_external_triggering_calls
    ELSE set_software_frame_rate_limit_calls(c.arg)

\* What the typed setter called by a composite returns.
typed_setter_result(c) ==
    CASE c.op = "set_trigger_selector" -> set_trigger_selector_result(c.arg)
      [] c.op = "set_trigger_mode" -> set_trigger_mode_result(c.arg)
      [] c.op = "set_acquisition_frame_rate_enable" ->
            set_acquisition_frame_rate_enable_result(c.arg)
      [] c.op = "set_acquisition_frame_rate" ->
            feature_float_set_result("AcquisitionFrameRate", c.arg)

begin_composite(t, c) ==
    /\ CanCallMut(t)
    /\ pc' = [pc EXCEPT ![t] = "composite"]
    /\ call' = [call EXCEPT ![t] = c]
    /\ issued' = <<>>
    /\ ev' = NoEvent
    /\ UNCHANGED <<dev_vars, held, session, lastFno, prev_format>>

start_default_external_triggering(t) ==
    begin_composite(t, Call("start_default_external_triggering", "", ""))

set_software_frame_rate_limit(t, fps_limit) ==
    begin_composite(t, Call("set_software_frame_rate_limit", "", fps_limit))

\* The composite issues its next setter call; `?` ends it on a failure.
composite_step(t) ==
    /\ pc[t] = "composite"
    /\ LET calls == composite_calls(call[t])
           c == calls[Len(issued) + 1]
           r == typed_setter_result(c)
       IN /\ issued' = Append(issued, [op |-> c.op, arg |-> c.arg, res |-> r])
          /\ pc' = [pc EXCEPT ![t] = IF IsOk(r) /\ Len(issued) + 1 < Len(calls)
                                     THEN "composite" ELSE "composite_return"]
    /\ ev' = NoEvent
    /\ UNCHANGED <<dev_vars, held, call, session, lastFno, prev_format>>

composite_returns(t) ==
    /\ pc[t] = "composite_return"
    /\ Finish(t, issued[Len(issued)].res)
    /\ issued' = <<>>
    /\ UNCHANGED <<dev_vars, session, lastFno, prev_format>>

\* ------------------------------------------------------------ specifications

\* Values handed to the setters.
BoolValues == {"true"}
IntValues == {"8"}
FloatValues == {"25.0"}
TriggerModes == {"Off", "On"}

\* The steps of a call in flight.
Step(t) ==
    \/ lock_inner(t)
    \/ enter_backend(t)
    \/ \E ok \in BOOLEAN : stream_returns(t, ok)
    \/ \E ok \in BOOLEAN : camera_control_returns(t, ok)
    \/ \E ok \in BOOLEAN : set_camera_requset_returns(t, ok)
    \/ \E ok \in BOOLEAN : frame_returns(t, ok)
    \/ lock_store_fno(t)
    \/ \E checks \in {"unobserved", "on", "off"} : increment(t, checks)
    \/ \E source \in FrameFormat, ok \in BOOLEAN : decode(t, source, ok)
    \/ read_format_returns(t)
    \/ composite_step(t)
    \/ composite_returns(t)

WeaklyTyped(t) ==
    \/ \E n \in CommandNames : command_execute(t, n)
    \/ \E n \in BoolNames : feature_bool(t, n)
    \/ \E n \in BoolNames, v \in BoolValues : feature_bool_set(t, n, v)
    \/ \E n \in EnumNames : feature_enum(t, n)
    \/ \E n \in EnumNames : \E v \in EnumValues(n) : feature_enum_set(t, n, v)
    \/ \E n \in FloatNames : feature_float(t, n)
    \/ \E n \in FloatNames, v \in FloatValues : feature_float_set(t, n, v)
    \/ \E n \in IntNames : feature_int(t, n)
    \/ \E n \in IntNames, v \in IntValues : feature_int_set(t, n, v)
    \/ node_map_load(t, node_map_save_result.val)
    \/ node_map_save(t)

Typed(t) ==
    \/ width(t)
    \/ height(t)
    \/ pixel_format(t)
    \/ \E f \in PixFmt : set_pixel_format(t, f)
    \/ exposure_time(t)
    \/ \E v \in FloatValues : set_exposure_time(t, v)
    \/ exposure_auto(t)
    \/ \E v \in AutoModes : set_exposure_auto(t, v)
    \/ gain(t)
    \/ \E v \in FloatValues : set_gain(t, v)
    \/ gain_auto(t)
    \/ \E v \in AutoModes : set_gain_auto(t, v)
    \/ trigger_mode(t)
    \/ \E v \in TriggerModes : set_trigger_mode(t, v)
    \/ acquisition_frame_rate_enable(t)
    \/ \E v \in BoolValues : set_acquisition_frame_rate_enable(t, v)
    \/ acquisition_frame_rate(t)
    \/ \E v \in FloatValues : set_acquisition_frame_rate(t, v)
    \/ trigger_selector(t)
    \/ set_trigger_selector(t, "FrameStart")
    \/ acquisition_mode(t)
    \/ set_acquisition_mode(t, "Continuous")
    \/ start_default_external_triggering(t)
    \/ \E v \in FloatValues : set_software_frame_rate_limit(t, v)

Acquisition(t) ==
    \/ acquisition_start(t)
    \/ acquisition_stop(t)
    \/ next_frame(t)

\* One owner thread makes every call.
Next ==
    \/ Step(MainThread)
    \/ WeaklyTyped(MainThread)
    \/ Typed(MainThread)
    \/ Acquisition(MainThread)

Spec == Init /\ [][Next]_vars

\* The steps of the calls that lock a mutex.
LockStep(t) ==
    \/ lock_inner(t)
    \/ enter_backend(t)
    \/ \E ok \in BOOLEAN : stream_returns(t, ok)
    \/ \E ok \in BOOLEAN : camera_control_returns(t, ok)
    \/ \E ok \in BOOLEAN : set_camera_requset_returns(t, ok)
    \/ \E ok \in BOOLEAN : frame_returns(t, ok)
    \/ lock_store_fno(t)
    \/ \E checks \in {"unobserved", "on", "off"} : increment(t, checks)
    \/ \E source \in FrameFormat, ok \in BOOLEAN : decode(t, source, ok)
    \/ read_format_returns(t)

\* The &self calls that lock a mutex: threads sharing the camera may make
\* them at the same time.
SharedCall(t) ==
    \/ \E n \in {"AcquisitionStart", "AcquisitionStop"} : command_execute(t, n)
    \/ \E n \in {"PixelFormat", "ExposureAuto"} : feature_enum(t, n)
    \/ \E v \in {"YUYV", "GRAY"} : feature_enum_set(t, "PixelFormat", v)
    \/ feature_float(t, "AcquisitionFrameRate")
    \/ feature_int(t, "Width")
    \/ pixel_format(t)
    \/ gain_auto(t)

\* The &mut self calls that lock a mutex: whichever thread has the camera
\* to itself may make one.
ExclusiveCall(t) ==
    \/ set_pixel_format(t, "Mono8")
    \/ acquisition_start(t)
    \/ acquisition_stop(t)
    \/ store_fno < MaxConcurrentFrames /\ next_frame(t)

\* Threads sharing the camera make the calls that lock its mutexes.
ConcurrentNext == \E t \in Threads : LockStep(t) \/ SharedCall(t) \/ ExclusiveCall(t)

ConcurrentSpec == Init /\ [][ConcurrentNext]_vars

\* The same threads, none of them stopped for ever: a call in flight goes on
\* when it can (the backend returns from every call made on it), and a thread
\* waiting for a mutex that is free again and again gets it in the end.
FairConcurrentSpec ==
    ConcurrentSpec /\ \A t \in Threads : SF_vars(LockStep(t))

\* -------------------------------------------------------------- properties

\* The call that returned in the last step delivered a frame.
FrameDelivered(e) == e.op = "next_frame" /\ IsOk(e.res)

\* C1: on a new camera, in one unbroken streaming session whose next_frame
\* calls all succeed, the first frame returned has number 0 and every later
\* frame has the number of the frame before it plus 1.
C1_SessionFramesCountFromZero ==
    [][ (FrameDelivered(ev') /\ session' = "clean")
          => ev'.res.num = IF lastFno = NoFno THEN 0 ELSE lastFno + 1 ]_vars

\* C2: the sentinel BAD_FNO (the counter type's maximum) is never the number
\* of a frame that next_frame returns.
C2_SentinelNeverEmitted == FrameDelivered(ev) => ev.res.num # BAD_FNO

\* The eight operations of the Feature Surface.
FeatureOps ==
    {"feature_bool", "feature_bool_set", "feature_int", "feature_int_set",
     "feature_float", "feature_float_set", "feature_enum", "feature_enum_set"}

\* C3: each of the eight Feature Surface operations, called with a name that
\* is in no taxonomy, returns an error that names the feature, never a value
\* or success.
C3_UnknownFeatureAlwaysErrors ==
    (ev.op \in FeatureOps /\ ev.name = UnknownFeature)
        => IsErr(ev.res) /\ ev.res.subject = ev.name

\* The canonical formats the backend can be asked for.
SupportedPixFmt == {"RGB8", "Mono8", "YUV422"}

\* C4: once set_pixel_format(f) has returned success for f in {RGB8, Mono8,
\* YUV422}, pixel_format() returns exactly f; for every other canonical format
\* set_pixel_format fails with an unsupported-pixel-format error that names it.
C4_PixelFormatRoundTrip ==
    ev.op = "set_pixel_format"
        => /\ (ev.arg \in SupportedPixFmt /\ IsOk(ev.res))
                 => pixel_format_result(current_format) = Ok(ev.arg)
           /\ ev.arg \notin SupportedPixFmt
                 => ev.res = Err("Unsupported pixel format", ev.arg)

C4_Witness ==
    /\ ev.op = "set_pixel_format"
    /\ ev.arg = "Mono8"
    /\ IsOk(ev.res)
    /\ current_format.format = "GRAY"

\* C5: start_default_external_triggering issues set_trigger_selector(FrameStart)
\* before set_trigger_mode(On): the mode is set only after the selector set has
\* returned success, and a run that ends has issued the selector set first.
C5_SelectorBeforeMode ==
    \A t \in Threads :
        call[t].op = "start_default_external_triggering"
            => /\ \A i \in DOMAIN issued :
                     issued[i].op = "set_trigger_mode"
                         => /\ i > 1
                            /\ issued[i - 1].op = "set_trigger_selector"
                            /\ issued[i - 1].arg = "FrameStart"
                            /\ IsOk(issued[i - 1].res)
                            /\ issued[i].arg = "On"
               /\ pc[t] = "composite_return"
                     => /\ issued[1].op = "set_trigger_selector"
                        /\ IsOk(issued[1].res)
                              => Len(issued) = 2 /\ issued[2].op = "set_trigger_mode"

C5_Witness ==
    \E t \in Threads :
        /\ call[t].op = "start_default_external_triggering"
        /\ pc[t] = "composite_return"
        /\ Len(issued) = 2
        /\ issued[2].op = "set_trigger_mode"

\* What each accessor of the Typed Settings Facade returns in this state
\* (for exposure_auto and gain_auto: whatever camera_control answers).
Guarded(lock, result) == IF lock \in poisoned THEN Panicked ELSE result
Accessors ==
    [ pixel_format |-> Guarded("current_format", pixel_format_result(current_format)),
      exposure_time |-> feature_float_fixed("ExposureTime"),
      exposure_auto |->
          {Guarded("inner", str_to_auto_mode(auto_mode_string(ok).val)) : ok \in BOOLEAN},
      gain |-> feature_float_fixed("Gain"),
      gain_auto |->
          {Guarded("inner", str_to_auto_mode(auto_mode_string(ok).val)) : ok \in BOOLEAN},
      trigger_mode |-> trigger_mode_result,
      trigger_selector |-> trigger_selector_result,
      acquisition_mode |-> acquisition_mode_result,
      acquisition_frame_rate |-> Guarded("current_format", frame_rate_result(current_format)),
      acquisition_frame_rate_enable |-> acquisition_frame_rate_enable_result ]

\* What the weakly typed getters of the features no backend control stands
\* behind return in this state.
UnsupportedReads ==
    [ ExposureTime |-> feature_float_fixed("ExposureTime"),
      Gain |-> feature_float_fixed("Gain"),
      ExposureAuto |-> {Guarded("inner", auto_mode_string(ok)) : ok \in BOOLEAN},
      GainAuto |-> {Guarded("inner", auto_mode_string(ok)) : ok \in BOOLEAN},
      TriggerMode |-> feature_enum_fixed("TriggerMode"),
      TriggerSelector |-> feature_enum_fixed("TriggerSelector"),
      AcquisitionMode |-> feature_enum_fixed("AcquisitionMode") ]

\* A set of a feature that is known and that the backend does not support.
UnsupportedSet(e) ==
    \/ e.op = "feature_float_set" /\ e.name \in {"ExposureTime", "Gain"}
    \/ /\ e.op = "feature_enum_set"
       /\ e.name \in {"ExposureAuto", "GainAuto", "TriggerMode", "TriggerSelector",
                      "AcquisitionMode"}
    \/ e.op \in {"set_exposure_time", "set_gain", "set_exposure_auto", "set_gain_auto",
                 "set_trigger_mode", "set_trigger_selector", "set_acquisition_mode"}

\* C6: a set of a known feature the backend does not support returns success
\* and changes nothing: the format record, the frame counter, the streaming
\* state and the mutexes are as before, and so is what every getter returns.
C6_UnsupportedSetIsNoOp ==
    [][ UnsupportedSet(ev')
          => /\ ev'.res = Ok("")
             /\ UNCHANGED <<current_format, store_fno, camera, held, poisoned>>
             /\ UnsupportedReads' = UnsupportedReads
             /\ Accessors' = Accessors ]_vars

C6_Witness ==
    /\ ev.op = "feature_enum_set"
    /\ ev.name = "ExposureAuto"
    /\ ev.arg = "Continuous"
    /\ IsOk(ev.res)
    /\ camera.streaming

\* The calls nokhwa::Camera takes on the device handle.
HandleMethods ==
    {"open_stream", "stop_stream", "frame", "set_camera_requset", "camera_control"}

\* C7: every backend call on the device handle is made by the thread that
\* holds the handle's mutex, so at most one call is inside the backend.
C7_HandleCallsExclusive ==
    /\ \A t \in Threads :
          InBackend(t)
              => held["inner"] = t /\ backend_method(call[t]) \in HandleMethods
    /\ Cardinality({t \in Threads : InBackend(t)}) <= 1

C7_Witness ==
    \E t, u \in Threads :
        /\ InBackend(t)
        /\ backend_method(call[t]) = "open_stream"
        /\ pc[u] = "lock_inner"

\* C8: node_map_load of what node_map_save has just returned leaves every
\* accessor of the Typed Settings Facade returning what it returned before.
C8_SaveLoadRoundTrip ==
    [][ (ev.op = "node_map_save" /\ ev'.op = "node_map_load" /\ ev'.arg = ev.res.val)
          => Accessors' = Accessors ]_vars

C8_Witness ==
    /\ ev.op = "node_map_load"
    /\ ev.arg = "{}"
    /\ IsOk(ev.res)
    /\ current_format.format = "GRAY"
    /\ current_format.frame_rate = 60

\* C9: no operation on a live camera resets or decreases the frame counter.
C9_CounterNeverDecreases == [][ store_fno' >= store_fno ]_vars

\* A call that sets the "PixelFormat" entry, and one that sets the
\* "AcquisitionFrameRate" entry.
PixelFormatSet(c) ==
    \/ c.op = "set_pixel_format"
    \/ c.op = "feature_enum_set" /\ c.name = "PixelFormat"
FrameRateSet(c) ==
    \/ c.op = "set_acquisition_frame_rate"
    \/ c.op = "feature_float_set" /\ c.name = "AcquisitionFrameRate"

\* C10: the format record changes only in a set of the "PixelFormat" or of the
\* "AcquisitionFrameRate" entry, and a PixelFormat set leaves the resolution
\* and the frame rate as they were.
C10_FormatChangedOnlyBySet ==
    [][ current_format' # current_format
          => \/ FrameRateSet(ev')
             \/ /\ \E t \in Threads : Idle(t) /\ PixelFormatSet(call'[t])
                /\ current_format'.resolution = current_format.resolution
                /\ current_format'.frame_rate = current_format.frame_rate ]_vars

C10_Witness ==
    \E t \in Threads :
        /\ pc[t] = "lock_inner"
        /\ PixelFormatSet(call[t])
        /\ current_format =
              [resolution |-> [width |-> 1280, height |-> 720], format |-> "GRAY",
               frame_rate |-> 60]

\* The value the frame counter had when the next_frame call in flight on
\* thread t began: the counter itself until the increment, `fno` after it.
CounterAtCall(t) == IF pc[t] = "decode" THEN frame_fno ELSE store_fno

\* C11: a next_frame call that returns an error leaves the frame counter as it
\* was when the call began, and of two frames delivered one after the other,
\* with any number of failed calls in between, the later one has the number
\* of the earlier one plus 1 (the wrap at the top of the counter's range set
\* aside).
C11_FailedFrameKeepsCounter ==
    [][ /\ \A t \in Threads :
              (call[t].op = "next_frame" /\ ev'.op = "next_frame" /\ IsErr(ev'.res))
                  => store_fno' = CounterAtCall(t)
        /\ (FrameDelivered(ev') /\ lastFno # NoFno /\ ~Overflows(lastFno))
              => ev'.res.num = lastFno + 1 ]_vars

\* C12: a PixelFormat set (set_pixel_format or feature_enum_set("PixelFormat"))
\* that returns an error leaves the format record as it was when the call
\* began, so pixel_format() and feature_enum("PixelFormat") return what they
\* returned before the call.
C12_FailedSetKeepsFormat ==
    [][ (PixelFormatSet(ev') /\ IsErr(ev'.res))
          => LET before == IF \E t \in Threads :
                                  PixelFormatSet(call[t]) /\ call'[t] = NoCall
                           THEN prev_format
                           ELSE current_format
             IN /\ current_format' = before
                /\ pixel_format_result(current_format') = pixel_format_result(before)
                /\ pixel_format_string(current_format') = pixel_format_string(before)
      ]_vars

\* The order the mutexes are taken in: the format record, then the device
\* handle, then the frame counter.
LockRank == [current_format |-> 1, inner |-> 2, store_fno |-> 3]

\* The mutex the call in flight on thread t is waiting to lock while it holds
\* another ("": none).
Wants(t) ==
    CASE pc[t] = "lock_inner" -> "inner"
      [] pc[t] = "lock_store_fno" -> "store_fno"
      [] OTHER -> ""

\* Some threads each wait for a mutex one of them holds.
Deadlocked ==
    \E S \in (SUBSET Threads) \ {{}} :
        \A t \in S : Wants(t) # "" /\ held[Wants(t)] \in S

====
